---- MODULE Spec2Model ----
(***************************************************************************)
(* The field-edge virtual sensor grid processor (EdgeProcessor) of         *)
(* farmsense-code/README.md: the scheduler loop Run, the compute cycle     *)
(* computeVirtualGrid, the storage manager storeVirtualGrid and the sync   *)
(* manager syncToCloud, over the processor's fields isOnline, cloudDB and  *)
(* pendingSync and the contents of the local and the remote store.         *)
(***************************************************************************)
EXTENDS Integers, Sequences, FiniteSets, TLC

\* ---------------------------------------------------------------- bounds
\* Number of grid coordinates generateGridPoints yields in the model.
NumGrid == 2
\* Number of compute cycles that reach the interpolation step.
MaxCycles == 2

Grid == 1..NumGrid

\* ----------------------------------------------------------------- state
VARIABLES
    cloudDB,        \* ep.cloudDB: "nil" or "open" (set once by NewEdgeProcessor)
    isOnline,       \* ep.isOnline
    pendingSync,    \* ep.pendingSync, a sequence of grid points
    localStore,     \* the rows storeLocal has written to the SQLite cache
    cloudStore,     \* the rows storeCloud has written to PostgreSQL
    computeTickerC, \* computeTicker.C holds a tick (channel of capacity 1)
    syncTickerC,    \* syncTicker.C holds a tick
    loop,           \* where Run's goroutine is: "select", "busy", "crashed"
    active,         \* the cycles that have been entered and have not returned
    now,            \* number of compute cycles that stamped points (time.Now)
    last,           \* history: what the last finished cycle did
    deferred,       \* history: a store's remote write failed and no probe
                    \* has succeeded since
    call            \* the last call of one of the pure functions: its name,
                    \* its arguments and what it returned

vars == <<cloudDB, isOnline, pendingSync, localStore, cloudStore,
          computeTickerC, syncTickerC, loop, active, now, last, deferred,
          call>>

\* The fields of the processor and the history of its cycles.
procVars == <<cloudDB, isOnline, pendingSync, localStore, cloudStore,
              computeTickerC, syncTickerC, loop, active, now, last, deferred>>

Range(s) == {s[i] : i \in 1..Len(s)}

\* A VirtualGridPoint: the grid id of its coordinate and its Timestamp.
VirtualGridPoint(g, t) == [gridId |-> g, ts |-> t]

\* The points of one compute cycle, in generateGridPoints order, for the
\* coordinates at which interpolatePoint returned a point.
RECURSIVE virtualPoints(_, _, _)
virtualPoints(g, produced, t) ==
    IF g > NumGrid THEN <<>>
    ELSE (IF g \in produced THEN <<VirtualGridPoint(g, t)>> ELSE <<>>)
         \o virtualPoints(g + 1, produced, t)

NoOp == [op |-> "init", online |-> FALSE, source |-> "none",
         fetch |-> "none", stored |-> FALSE,
         local |-> "none", probe |-> "none", remote |-> "none",
         pts |-> <<>>, queued |-> <<>>]

\* NewEdgeProcessor: sql.Open of the cloud database may fail (cloudDB = nil,
\* a warning only); the processor starts online exactly when it did not.
Init ==
    /\ cloudDB \in {"nil", "open"}
    /\ isOnline = (cloudDB # "nil")
    /\ pendingSync = <<>>
    /\ localStore = {}
    /\ cloudStore = {}
    /\ computeTickerC = FALSE
    /\ syncTickerC = FALSE
    /\ loop = "select"
    /\ active = {}
    /\ now = 0
    /\ last = NoOp
    /\ deferred = FALSE
    /\ call = [fn |-> "none", arg |-> <<>>, res |-> <<>>]


\* ------------------------------------------------------- storage manager
\* storeLocal: the local cache after the points are written to it.
storeLocal(points) == localStore \cup Range(points)

\* storeCloud: the remote store after a batch insert of the points; the
\* insert returns an error (err # nil) exactly when ok is FALSE, and an
\* insert that returns an error has written nothing.
storeCloud(points, ok) ==
    IF ok THEN cloudStore \cup Range(points) ELSE cloudStore

\* Variant of storeAttemptsCloud: the guard dropped, a remote write is
\* attempted whatever the flag says.
storeAttemptsCloudUnguarded == TRUE

\* storeVirtualGrid's guard of the remote attempt:
\* ep.isOnline && ep.cloudDB != nil.
storeAttemptsCloud == isOnline /\ cloudDB # "nil"

\* Variant of storeVirtualGridLocal: the local write left out.
storeVirtualGridLocalSkipped(points) == localStore

\* storeVirtualGrid's first statement: ep.storeLocal(points), unconditional.
storeVirtualGridLocal(points) == storeLocal(points)

\* Variant of storeVirtualGridQueue: on a failed remote write the queue is
\* assigned the points instead of being appended to.
storeVirtualGridQueueOverwrites(points, cloudOk) ==
    IF storeAttemptsCloud
    THEN (IF cloudOk THEN pendingSync ELSE points)
    ELSE pendingSync \o points

\* Variant of storeVirtualGridQueue: the points of a failed remote write
\* are not queued.
storeVirtualGridQueueDropsFailed(points, cloudOk) ==
    IF storeAttemptsCloud THEN pendingSync ELSE pendingSync \o points

\* Variant of storeVirtualGridQueue: a queued point whose grid id is among
\* the new points is replaced by the new point.
storeVirtualGridQueueDedups(points, cloudOk) ==
    LET fresh(q) == \A i \in 1..Len(points) : points[i].gridId # q.gridId
        kept == SelectSeq(pendingSync, fresh)
    IN  IF storeAttemptsCloud
        THEN (IF cloudOk THEN pendingSync ELSE kept \o points)
        ELSE kept \o points

\* The queue storeVirtualGrid leaves: the points are appended when the
\* remote write returned an error and when no remote write was attempted.
storeVirtualGridQueue(points, cloudOk) ==
    IF storeAttemptsCloud
    THEN (IF cloudOk THEN pendingSync ELSE pendingSync \o points)
    ELSE pendingSync \o points

\* The remote-write outcome storeVirtualGrid saw (for the history record).
storeRemote(cloudOk) ==
    IF storeAttemptsCloud
    THEN (IF cloudOk THEN "ok" ELSE "fail") ELSE "none"

\* storeVirtualGrid: local write first, always; then a remote write if the
\* processor is online and has a cloud handle, queueing the points when it
\* returns an error; otherwise the points are queued without an attempt.
\* isOnline is not assigned.
storeVirtualGrid(points, cloudOk) ==
    /\ localStore' = storeVirtualGridLocal(points)
    /\ cloudStore' = IF storeAttemptsCloud THEN storeCloud(points, cloudOk)
                     ELSE cloudStore
    /\ pendingSync' = storeVirtualGridQueue(points, cloudOk)
    /\ deferred' = (deferred \/ storeRemote(cloudOk) = "fail")
    /\ isOnline' = isOnline

\* storeVirtualGrid when the write inside storeLocal fails. storeLocal has
\* no result, so storeVirtualGrid cannot see the failure: nothing reaches
\* the local cache and the statements after the call run as always.
storeVirtualGridLocalFailed(points, cloudOk) ==
    /\ localStore' = localStore
    /\ cloudStore' = IF storeAttemptsCloud THEN storeCloud(points, cloudOk)
                     ELSE cloudStore
    /\ pendingSync' = storeVirtualGridQueue(points, cloudOk)
    /\ deferred' = (deferred \/ storeRemote(cloudOk) = "fail")
    /\ isOnline' = isOnline

\* ---------------------------------------------------------- compute cycle
\* Variant of fetchRecentSensorsDB: no fallback to the local cache.
fetchRecentSensorsCloudOnly == "cloudDB"

\* fetchRecentSensors' choice of the database it queries:
\* db := ep.cloudDB; if db == nil { db = ep.localDB }.
fetchRecentSensorsDB == IF cloudDB = "nil" THEN "localDB" ELSE "cloudDB"

\* Variant of computeReachesStore: the test of len(sensors) against
\* MinSensors left out.
computeReachesStoreOnFew(fetch) == fetch # "err"

\* computeVirtualGrid's two early returns: on an error of
\* fetchRecentSensors and on len(sensors) < MinSensors. Only a cycle that
\* passes both goes on to interpolate and to call storeVirtualGrid.
computeReachesStore(fetch) == fetch = "ok"

\* computeVirtualGrid, entered from Run. fetch is what fetchRecentSensors
\* gave: "err" (query error), "few" (fewer than MinSensors rows) or "ok";
\* produced are the grid coordinates where interpolatePoint returned a
\* point; cloudOk is the answer of the remote store to a write.
computeVirtualGrid(fetch, produced, cloudOk) ==
    /\ "compute" \in active
    /\ IF computeReachesStore(fetch)
       THEN /\ storeVirtualGrid(virtualPoints(1, produced, now), cloudOk)
            /\ now' = now + 1
            /\ last' = [op |-> "compute", online |-> isOnline,
                        source |-> fetchRecentSensorsDB, fetch |-> fetch,
                        stored |-> TRUE, local |-> "ok", probe |-> "none",
                        remote |-> storeRemote(cloudOk),
                        pts |-> virtualPoints(1, produced, now),
                        queued |-> pendingSync]
       ELSE /\ UNCHANGED <<localStore, cloudStore, pendingSync, isOnline,
                           deferred, now>>
            /\ last' = [op |-> "compute", online |-> isOnline,
                        source |-> fetchRecentSensorsDB, fetch |-> fetch,
                        stored |-> FALSE, local |-> "none", probe |-> "none",
                        remote |-> "none", pts |-> <<>>, queued |-> pendingSync]
    /\ active' = active \ {"compute"}
    /\ loop' = "select"
    /\ UNCHANGED <<cloudDB, computeTickerC, syncTickerC, call>>

\* computeVirtualGrid in a cycle whose readings were fetched and whose
\* local write fails.
computeVirtualGridLocalFailed(produced, cloudOk) ==
    /\ "compute" \in active
    /\ storeVirtualGridLocalFailed(virtualPoints(1, produced, now), cloudOk)
    /\ now' = now + 1
    /\ last' = [op |-> "compute", online |-> isOnline,
                source |-> fetchRecentSensorsDB, fetch |-> "ok",
                stored |-> TRUE, local |-> "fail", probe |-> "none",
                remote |-> storeRemote(cloudOk),
                pts |-> virtualPoints(1, produced, now),
                queued |-> pendingSync]
    /\ active' = active \ {"compute"}
    /\ loop' = "select"
    /\ UNCHANGED <<cloudDB, computeTickerC, syncTickerC, call>>

\* ------------------------------------------------------------ sync cycle
\* Variant of syncQueue: a failed bulk write drains the head of the queue.
syncQueueDropsHead(cloudOk) == IF cloudOk THEN <<>> ELSE Tail(pendingSync)

\* Variant of syncQueue: the queue is not reset after the bulk write.
syncQueueKeeps(cloudOk) == pendingSync

\* The queue after the bulk write of syncToCloud returned: emptied when
\* err == nil, untouched otherwise.
syncQueue(cloudOk) == IF cloudOk THEN <<>> ELSE pendingSync

\* Variant of syncOnline: the flag is set as soon as the probe is tried,
\* whatever comes of it.
syncOnlineUnchecked(needProbe, probeOk) == IF needProbe THEN TRUE ELSE isOnline

\* The online flag syncToCloud leaves: set to true when the probe returned
\* no error (err == nil), not assigned otherwise.
syncOnline(needProbe, probeOk) == IF probeOk THEN TRUE ELSE isOnline

\* syncToCloud, entered from Run. If the processor is not online or has no
\* cloud handle it calls ep.cloudDB.Ping(): on a nil handle that call
\* dereferences nil and panics (nothing recovers it, the process dies);
\* otherwise pingOk is the probe's answer. Then, if the queue is non-empty,
\* one bulk write of the whole queue.
syncToCloud(pingOk, cloudOk) ==
    LET needProbe == ~isOnline \/ cloudDB = "nil"
        panics    == needProbe /\ cloudDB = "nil"
        probeOk   == needProbe /\ ~panics /\ pingOk
        flush     == (~needProbe \/ probeOk) /\ Len(pendingSync) > 0
    IN  /\ "sync" \in active
        /\ isOnline' = syncOnline(needProbe, probeOk)
        /\ cloudStore' = IF flush THEN storeCloud(pendingSync, cloudOk)
                         ELSE cloudStore
        /\ pendingSync' = IF flush THEN syncQueue(cloudOk) ELSE pendingSync
        /\ deferred' = IF probeOk THEN FALSE ELSE deferred
        /\ last' = [op |-> "sync", online |-> isOnline, source |-> "none",
                    fetch |-> "none",
                    stored |-> FALSE, local |-> "none",
                    probe |-> IF panics THEN "panic"
                              ELSE IF ~needProbe THEN "none"
                              ELSE IF pingOk THEN "ok" ELSE "fail",
                    remote |-> IF ~flush THEN "none"
                               ELSE IF cloudOk THEN "ok" ELSE "fail",
                    pts |-> <<>>, queued |-> pendingSync]
        /\ active' = active \ {"sync"}
        /\ loop' = IF panics THEN "crashed" ELSE "select"
        /\ UNCHANGED <<cloudDB, localStore, computeTickerC, syncTickerC, now,
                       call>>

\* -------------------------------------------------------------- scheduler
\* The two tickers, created by Run: a tick is put into the ticker's channel
\* while the process runs; a tick that finds the channel full is dropped.
TickCompute ==
    /\ loop \in {"select", "busy"}
    /\ computeTickerC' = TRUE
    /\ UNCHANGED <<cloudDB, isOnline, pendingSync, localStore, cloudStore,
                   syncTickerC, loop, active, now, last, deferred, call>>

TickSync ==
    /\ loop \in {"select", "busy"}
    /\ syncTickerC' = TRUE
    /\ UNCHANGED <<cloudDB, isOnline, pendingSync, localStore, cloudStore,
                   computeTickerC, loop, active, now, last, deferred, call>>

\* Variant of RunCall: the handler is started with `go`, the loop is back
\* at its select at once.
RunCallSpawns == "select"

\* Run's goroutine after select took a tick: it calls the handler itself,
\* so it is busy until the handler returns.
RunCall == "busy"

\* Run: select receives from computeTicker.C and calls computeVirtualGrid.
RunCompute ==
    /\ loop = "select"
    /\ computeTickerC
    /\ now < MaxCycles
    /\ computeTickerC' = FALSE
    /\ loop' = RunCall
    /\ active' = active \cup {"compute"}
    /\ UNCHANGED <<cloudDB, isOnline, pendingSync, localStore, cloudStore,
                   syncTickerC, now, last, deferred, call>>

\* Run: select receives from syncTicker.C and calls syncToCloud.
RunSync ==
    /\ loop = "select"
    /\ syncTickerC
    /\ syncTickerC' = FALSE
    /\ loop' = RunCall
    /\ active' = active \cup {"sync"}
    /\ UNCHANGED <<cloudDB, isOnline, pendingSync, localStore, cloudStore,
                   computeTickerC, now, last, deferred, call>>

ComputeCycle ==
    \E fetch \in {"err", "few", "ok"}, produced \in SUBSET Grid,
       cloudOk \in BOOLEAN :
        computeVirtualGrid(fetch, produced, cloudOk)

SyncCycle ==
    \E pingOk \in BOOLEAN, cloudOk \in BOOLEAN : syncToCloud(pingOk, cloudOk)

Next ==
    \/ TickCompute
    \/ TickSync
    \/ RunCompute
    \/ RunSync
    \/ ComputeCycle
    \/ SyncCycle

Spec == Init /\ [][Next]_vars

\* ----------------------------------------------------------------- startup
\* Variant of mainLoop: the error of NewEdgeProcessor is not looked at.
mainLoopIgnoresError(localErr) == "select"

\* main after NewEdgeProcessor returned: log.Fatalf ends the process when
\* it returned an error; otherwise processor.Run() enters the loop.
mainLoop(localErr) == IF localErr THEN "exited" ELSE "select"

\* main, from the start of the process: NewEdgeProcessor opens the cloud
\* database (an error is logged, cloudDB = nil) and the local cache (an
\* error is returned, and no processor is built), and builds the processor
\* with isOnline = (cloudDB != nil) and an empty pendingSync.
main(cloudErr, localErr) ==
    /\ loop = "start"
    /\ cloudDB' = IF cloudErr THEN "nil" ELSE "open"
    /\ isOnline' = (~localErr /\ ~cloudErr)
    /\ pendingSync' = <<>>
    /\ loop' = mainLoop(localErr)
    /\ UNCHANGED <<localStore, cloudStore, computeTickerC, syncTickerC,
                   active, now, last, deferred, call>>

Main == \E cloudErr \in BOOLEAN, localErr \in BOOLEAN : main(cloudErr, localErr)

\* The process before main has run: no processor, no tickers.
InitStartup ==
    /\ cloudDB = "nil"
    /\ isOnline = FALSE
    /\ pendingSync = <<>>
    /\ localStore = {}
    /\ cloudStore = {}
    /\ computeTickerC = FALSE
    /\ syncTickerC = FALSE
    /\ loop = "start"
    /\ active = {}
    /\ now = 0
    /\ last = NoOp
    /\ deferred = FALSE
    /\ call = [fn |-> "none", arg |-> <<>>, res |-> <<>>]

NextStartup ==
    \/ Main
    \/ TickCompute
    \/ TickSync
    \/ RunCompute
    \/ RunSync
    \/ ComputeCycle
    \/ SyncCycle

SpecStartup == InitStartup /\ [][NextStartup]_vars

\* The processor with a local cache whose writes can fail.
ComputeCycleLocalFailed ==
    \E produced \in SUBSET Grid, cloudOk \in BOOLEAN :
        computeVirtualGridLocalFailed(produced, cloudOk)

NextLocalFail ==
    \/ TickCompute
    \/ TickSync
    \/ RunCompute
    \/ RunSync
    \/ ComputeCycle
    \/ SyncCycle
    \/ ComputeCycleLocalFailed

SpecLocalFail == Init /\ [][NextLocalFail]_vars

\* The processor under the scheduling Run gives: the sync ticker keeps
\* firing, a select with a ready sync tick takes it sooner or later (Go
\* picks among the ready cases at random), and every handler returns.
SpecFair ==
    /\ Init /\ [][Next]_vars
    /\ WF_vars(TickSync)
    /\ SF_vars(RunSync)
    /\ WF_vars(SyncCycle)
    /\ WF_vars(ComputeCycle)


\* -------------------------------------------------------- derived metrics
\* Numbers. The functions below compute on float64; the model computes on
\* exact fractions with a common denominator den > 0: a moisture m stands
\* for m / (100 * den), a temperature t for t / den degrees, a water
\* deficit d for d / den mm and a stress index s for s / (120 * den).

\* Ranges of the inputs the functions are applied to.
NegMoisture == 10
MaxMoisture == 60
MaxTemp == 50
MaxDeficit == 180
MaxStress == 120

Max(a, b) == IF a >= b THEN a ELSE b
Min(a, b) == IF a <= b THEN a ELSE b

\* Variant of calculateWaterDeficit: the root depth taken in cm (60), not
\* in mm (600).
calculateWaterDeficitCm(moistureSurface, moistureRoot, den) ==
    IF moistureSurface + moistureRoot >= 70 * den THEN 0
    ELSE Max((3 * (70 * den - (moistureSurface + moistureRoot))) \div 10, 0)

\* calculateWaterDeficit: avgMoisture = (surface + root) / 2; 0 when
\* avgMoisture >= 0.35, else max((0.35 - avgMoisture) * 600, 0).
\* (0.35 - (a + b) / (200 den)) * 600 = 3 * (70 den - (a + b)) / den.
calculateWaterDeficit(moistureSurface, moistureRoot, den) ==
    IF moistureSurface + moistureRoot >= 70 * den THEN 0
    ELSE Max(3 * (70 * den - (moistureSurface + moistureRoot)), 0)

\* Variant of calculateStressIndex: the final math.Min left out.
calculateStressIndexUnclamped(moisture, temperature, den) ==
    LET moistureStress == IF moisture < 20 * den
                          THEN 3 * (20 * den - moisture) ELSE 0
        tempStress == IF temperature > 30 * den
                      THEN 4 * (temperature - 30 * den) ELSE 0
    IN  moistureStress + tempStress

\* calculateStressIndex: moistureStress = (0.20 - moisture) / 0.20 below
\* 0.20, tempStress = (temperature - 30) / 15 above 30, the result
\* min((moistureStress + tempStress) / 2, 1). In units of 1 / (60 den) the
\* two stresses are 3 * (20 den - m) and 4 * (t - 30 den); their half sum
\* in units of 1 / (120 den) is their sum.
calculateStressIndex(moisture, temperature, den) ==
    LET moistureStress == IF moisture < 20 * den
                          THEN 3 * (20 * den - moisture) ELSE 0
        tempStress == IF temperature > 30 * den
                      THEN 4 * (temperature - 30 * den) ELSE 0
    IN  Min(moistureStress + tempStress, 120 * den)

\* Variant of classifyIrrigationNeed: the deficit comparison of the "low"
\* branch reversed.
classifyIrrigationNeedReversed(waterDeficit, stressIndex, den) ==
    IF waterDeficit < 10 * den /\ stressIndex < 24 * den THEN "none"
    ELSE IF waterDeficit > 30 * den /\ stressIndex < 48 * den THEN "low"
    ELSE IF waterDeficit < 60 * den /\ stressIndex < 72 * den THEN "medium"
    ELSE IF waterDeficit < 100 * den /\ stressIndex < 96 * den THEN "high"
    ELSE "critical"

\* Variant of classifyIrrigationNeed: || for && in the first branch.
classifyIrrigationNeedEither(waterDeficit, stressIndex, den) ==
    IF waterDeficit < 10 * den \/ stressIndex < 24 * den THEN "none"
    ELSE IF waterDeficit < 30 * den /\ stressIndex < 48 * den THEN "low"
    ELSE IF waterDeficit < 60 * den /\ stressIndex < 72 * den THEN "medium"
    ELSE IF waterDeficit < 100 * den /\ stressIndex < 96 * den THEN "high"
    ELSE "critical"

\* classifyIrrigationNeed: the if / else-if chain on (waterDeficit,
\* stressIndex) with the thresholds (10, 0.2), (30, 0.4), (60, 0.6),
\* (100, 0.8); 0.2 is 24 / 120.
classifyIrrigationNeed(waterDeficit, stressIndex, den) ==
    IF waterDeficit < 10 * den /\ stressIndex < 24 * den THEN "none"
    ELSE IF waterDeficit < 30 * den /\ stressIndex < 48 * den THEN "low"
    ELSE IF waterDeficit < 60 * den /\ stressIndex < 72 * den THEN "medium"
    ELSE IF waterDeficit < 100 * den /\ stressIndex < 96 * den THEN "high"
    ELSE "critical"

\* ---------------------------------------------------------- interpolation
\* EdgeConfig as main sets it.
IDWPower == 2
SearchRadius == 100
MinSensors == 3

\* Weights 1 / distance^IDWPower are kept in units of 1 / WeightScale.
WeightScale == SearchRadius ^ IDWPower

\* A SensorReading as interpolatePoint uses it; dist is
\* geo.Distance(point, sensorPoint), in whole metres.
SensorReading(id, dist, profile) ==
    [SensorID |-> id, dist |-> dist,
     MoistureSurface |-> profile[1], MoistureRoot |-> profile[2],
     TempSurface |-> profile[3]]

RECURSIVE SumOf(_)
SumOf(values) ==
    IF values = <<>> THEN 0 ELSE values[1] + SumOf(Tail(values))

\* calculateVariance of the weights as a fraction <<numerator, denominator>>
\* of squared weights (in real units, of 1 / WeightScale^2):
\* sum((v - mean)^2) / n = (n * sum(v^2) - sum(v)^2) / n^2.
calculateVariance(values) ==
    IF Len(values) = 0 THEN <<0, 1>>
    ELSE LET n == Len(values)
             squares == [i \in 1..n |-> values[i] * values[i]]
         IN  <<n * SumOf(squares) - SumOf(values) * SumOf(values), n * n>>

\* calculateConfidence: baseConfidence = min(sensorCount / 10, 1) times
\* distributionFactor = 1 / (1 + variance); both kept as fractions.
calculateConfidence(sensorCount, weights) ==
    LET variance == calculateVariance(weights)
        unit == variance[2] * WeightScale * WeightScale
    IN  [base |-> <<Min(sensorCount, 10), 10>>,
         factor |-> IF Len(weights) > 0
                    THEN <<unit, unit + variance[1]>> ELSE <<1, 1>>]

NilPoint == [isNil |-> TRUE]

\* Variant of coincidentPoint: MoistureRoot copied from the surface value.
coincidentPointSurfaceTwice(sensor) ==
    [isNil |-> FALSE,
     MoistureSurface |-> sensor.MoistureSurface,
     MoistureRoot |-> sensor.MoistureSurface,
     Temperature |-> sensor.TempSurface,
     den |-> 1,
     WaterDeficit |-> 0, StressIndex |-> 0, IrrigationNeed |-> "",
     SourceSensors |-> <<sensor.SensorID>>,
     Confidence |-> [base |-> <<1, 1>>, factor |-> <<1, 1>>],
     ComputationMode |-> ""]

\* The point interpolatePoint returns for a sensor at distance < 1.0: the
\* sensor's values, Confidence 1.0, the sensor as only source. WaterDeficit,
\* StressIndex, IrrigationNeed and ComputationMode are not set in that
\* literal and keep Go's zero values.
coincidentPoint(sensor) ==
    [isNil |-> FALSE,
     MoistureSurface |-> sensor.MoistureSurface,
     MoistureRoot |-> sensor.MoistureRoot,
     Temperature |-> sensor.TempSurface,
     den |-> 1,
     WaterDeficit |-> 0, StressIndex |-> 0, IrrigationNeed |-> "",
     SourceSensors |-> <<sensor.SensorID>>,
     Confidence |-> [base |-> <<1, 1>>, factor |-> <<1, 1>>],
     ComputationMode |-> ""]

\* Variant of interpolateInsufficient: the readings of the field are
\* counted instead of the weighted ones.
interpolateInsufficientAll(sensors, weighted) == Len(sensors) < MinSensors

\* Variant of interpolateInsufficient: <= for <, shifted by one.
interpolateInsufficientOffByOne(sensors, weighted) ==
    Len(weighted) < MinSensors - 1

\* interpolatePoint's test after the loop: len(weights) < MinSensors.
interpolateInsufficient(sensors, weighted) == Len(weighted) < MinSensors

\* interpolatePoint after the loop: nil below MinSensors weighted sensors,
\* else the weighted averages (numerators over den = totalWeight), the
\* confidence and the derived metrics.
interpolateWeighted(sensors, weighted) ==
    IF interpolateInsufficient(sensors, weighted) THEN NilPoint
    ELSE LET n == Len(weighted)
             weights == [i \in 1..n |->
                            WeightScale \div (weighted[i].dist ^ IDWPower)]
             totalWeight == SumOf(weights)
             moistureSurface ==
                 SumOf([i \in 1..n |-> weighted[i].MoistureSurface * weights[i]])
             moistureRoot ==
                 SumOf([i \in 1..n |-> weighted[i].MoistureRoot * weights[i]])
             temperature ==
                 SumOf([i \in 1..n |-> weighted[i].TempSurface * weights[i]])
             waterDeficit ==
                 calculateWaterDeficit(moistureSurface, moistureRoot, totalWeight)
             stressIndex ==
                 calculateStressIndex(moistureSurface, temperature, totalWeight)
         IN  [isNil |-> FALSE,
              MoistureSurface |-> moistureSurface,
              MoistureRoot |-> moistureRoot,
              Temperature |-> temperature,
              den |-> totalWeight,
              WaterDeficit |-> waterDeficit,
              StressIndex |-> stressIndex,
              IrrigationNeed |->
                  classifyIrrigationNeed(waterDeficit, stressIndex, totalWeight),
              SourceSensors |-> [i \in 1..n |-> weighted[i].SensorID],
              Confidence |-> calculateConfidence(n, weights),
              ComputationMode |-> "edge_20m"]

\* interpolatePoint's loop from sensor i on, weighted being the sensors
\* weighted so far: a sensor beyond SearchRadius is skipped, a sensor at
\* distance < 1.0 ends the function with its own values, any other sensor
\* is weighted.
RECURSIVE interpolateFrom(_, _, _)
interpolateFrom(sensors, i, weighted) ==
    IF i > Len(sensors) THEN interpolateWeighted(sensors, weighted)
    ELSE IF sensors[i].dist > SearchRadius
         THEN interpolateFrom(sensors, i + 1, weighted)
    ELSE IF sensors[i].dist < 1 THEN coincidentPoint(sensors[i])
    ELSE interpolateFrom(sensors, i + 1, Append(weighted, sensors[i]))

interpolatePoint(sensors) == interpolateFrom(sensors, 1, <<>>)

\* The readings interpolatePoint is applied to: up to MaxReadings sensors,
\* each at one of the distances and with one of the value profiles.
MaxReadings == 3
Distances == {0, 1, SearchRadius \div 2, SearchRadius, SearchRadius + 1}
Profiles == {<<10, 20, 25>>, <<30, 40, 35>>}

ReadingLists ==
    UNION {[1..n -> Distances \X Profiles] : n \in 0..MaxReadings}

sensorsOf(list) ==
    [i \in 1..Len(list) |-> SensorReading(i, list[i][1], list[i][2])]

\* --------------------------------------------------------- grid generator
\* Coordinates are in units of 0.0001 degree. The extent and the steps are
\* the literals of generateGridPoints.
minLat == 377749
maxLat == 377800
minLon == -1224194
maxLon == -1224100
latStep == 2
lonStep == 2

\* The values one `for v := lo; v <= hi; v += step` loop visits. The loop
\* adds float64 steps: when hi lies a whole number of steps above lo the
\* accumulated sum may come out just above hi, and the last value is then
\* not visited (exact = FALSE).
axisValues(lo, hi, step, exact) ==
    LET fit == (hi - lo) \div step
        count == IF (hi - lo) % step = 0 /\ ~exact THEN fit ELSE fit + 1
    IN  [k \in 1..count |-> lo + (k - 1) * step]

\* generateGridPoints: the nested loops, latitude outside, longitude
\* inside, appending orb.Point{lon, lat}. The configured GridResolution
\* is not read.
generateGridPoints(gridResolution, exact) ==
    LET lats == axisValues(minLat, maxLat, latStep, exact)
        lons == axisValues(minLon, maxLon, lonStep, exact)
    IN  [k \in 1..(Len(lats) * Len(lons)) |->
            [lon |-> lons[((k - 1) % Len(lons)) + 1],
             lat |-> lats[((k - 1) \div Len(lons)) + 1]]]

\* The GridResolution values (metres) of the configurations tried.
Resolutions == {10, 20, 40}

\* ------------------------------------------- the pure functions, applied
\* Each behaviour applies one function to one input drawn from its range.
Moistures == (0 - NegMoisture)..MaxMoisture

CallWaterDeficit ==
    /\ call.fn = "none"
    /\ \E ms \in Moistures, mr \in Moistures :
          call' = [fn |-> "calculateWaterDeficit", arg |-> <<ms, mr>>,
                   res |-> calculateWaterDeficit(ms, mr, 1)]
    /\ UNCHANGED procVars

CallStressIndex ==
    /\ call.fn = "none"
    /\ \E m \in Moistures, t \in 0..MaxTemp :
          call' = [fn |-> "calculateStressIndex", arg |-> <<m, t>>,
                   res |-> calculateStressIndex(m, t, 1)]
    /\ UNCHANGED procVars

CallClassify ==
    /\ call.fn = "none"
    /\ \E d \in 0..MaxDeficit, st \in 0..MaxStress :
          call' = [fn |-> "classifyIrrigationNeed", arg |-> <<d, st>>,
                   res |-> classifyIrrigationNeed(d, st, 1)]
    /\ UNCHANGED procVars

CallInterpolate ==
    /\ call.fn = "none"
    /\ \E list \in ReadingLists :
          call' = [fn |-> "interpolatePoint", arg |-> sensorsOf(list),
                   res |-> interpolatePoint(sensorsOf(list))]
    /\ UNCHANGED procVars

CallGenerateGrid ==
    /\ call.fn = "none"
    /\ \E gridResolution \in Resolutions, exact \in BOOLEAN :
          call' = [fn |-> "generateGridPoints",
                   arg |-> <<gridResolution, exact>>,
                   res |-> generateGridPoints(gridResolution, exact)]
    /\ UNCHANGED procVars

NextCalc ==
    \/ CallGenerateGrid
    \/ CallInterpolate
    \/ CallWaterDeficit
    \/ CallStressIndex
    \/ CallClassify

SpecCalc == Init /\ [][NextCalc]_vars

\* ------------------------------------------------------------ properties
IsPrefix(s, t) == Len(s) <= Len(t) /\ SubSeq(t, 1, Len(s)) = s

\* C1: a sync tick whose bulk write of the pending queue fails leaves the
\* queue exactly as it was: same elements, same order, same length.
C1_FailedFlushKeepsQueue ==
    [][(SyncCycle /\ last'.remote = "fail") => pendingSync' = pendingSync]_vars

C1_Witness ==
    /\ last.op = "sync" /\ last.remote = "fail"
    /\ Len(last.queued) >= 2
    /\ pendingSync = last.queued

\* C2: the queue loses elements only in a sync tick whose bulk write of the
\* whole queue succeeded, and then it becomes empty; every other step keeps
\* the queued points in place and in order (it can only append).
C2_DrainOnlyBySuccessfulFlush ==
    [][\/ IsPrefix(pendingSync, pendingSync')
       \/ (SyncCycle /\ last'.remote = "ok" /\ pendingSync' = <<>>)]_vars

C2_Witness ==
    /\ last.op = "sync" /\ last.remote = "ok"
    /\ Len(last.queued) >= 2
    /\ pendingSync = <<>>

C4_FailedStoreQueuesAndGoesOffline ==
    (last.op = "compute" /\ last.stored /\ last.online /\ last.remote = "fail")
        => (pendingSync = last.queued \o last.pts /\ ~isOnline)

\* C5: once a store's remote write has failed, no cycle attempts a remote
\* write until a reachability probe has succeeded.
C5_NoRemoteWriteUntilProbe ==
    [][(deferred /\ (ComputeCycle \/ SyncCycle) /\ last'.remote # "none")
          => last'.probe = "ok"]_vars

\* C6: a store operation while the device is marked offline attempts no
\* remote write: all the points go to the local store and to the tail of
\* the queue, and the remote store is unchanged.
C6_OfflineStoreQueuesAll ==
    [][\A produced \in SUBSET Grid, cloudOk \in BOOLEAN :
          (~isOnline /\ computeVirtualGrid("ok", produced, cloudOk))
              => /\ last'.remote = "none"
                 /\ cloudStore' = cloudStore
                 /\ localStore' =
                        localStore \cup Range(virtualPoints(1, produced, now))
                 /\ pendingSync' =
                        pendingSync \o virtualPoints(1, produced, now)]_vars

C6_Witness ==
    /\ last.op = "compute" /\ last.stored /\ ~last.online
    /\ Len(last.pts) = NumGrid
    /\ pendingSync = last.queued \o last.pts
    /\ Range(last.pts) \subseteq localStore
    /\ Range(last.pts) \cap cloudStore = {}

\* C7: from a state marked offline with a non-empty queue, a sync tick in
\* which the remote store answers the probe and accepts the bulk write ends
\* with the device online, the queue empty and the queued points remote.
C7_OfflineFlushRecovers ==
    [][(~isOnline /\ Len(pendingSync) > 0 /\ syncToCloud(TRUE, TRUE))
          => /\ isOnline'
             /\ pendingSync' = <<>>
             /\ Range(pendingSync) \subseteq cloudStore']_vars

\* C8: a sync tick while marked offline whose probe does not succeed returns
\* without further action: no remote write, and the online flag, the queue,
\* the local store and the remote store are unchanged.
C8_FailedProbeReturnsUnchanged ==
    [][(~isOnline /\ SyncCycle /\ last'.probe # "ok")
          => /\ loop' = "select"
             /\ last'.remote = "none"
             /\ UNCHANGED <<isOnline, pendingSync, localStore, cloudStore>>]_vars

\* C9: no recoverable failure (remote write failure, probe failure, query
\* failure, a remote connection never established at startup) terminates
\* the scheduler loop.
C9_LoopNeverTerminates == loop # "crashed"

\* C10: the scheduler runs at most one cycle at a time: while a cycle is
\* running the loop is not at its select, so no other cycle is entered
\* before the running one has returned.
C10_OneCycleAtATime ==
    /\ Cardinality(active) <= 1
    /\ (loop = "select" => active = {})

C10_Witness ==
    /\ active = {"sync"}
    /\ computeTickerC
    /\ loop = "busy"


C12_LocalFailureStopsStore ==
    (last.op = "compute" /\ last.local = "fail")
        => (last.remote = "none" /\ pendingSync = last.queued)

\* The grid points compute cycles can produce within the bounds.
AllPoints == {VirtualGridPoint(g, t) : g \in Grid, t \in 0..(MaxCycles - 1)}

\* No finished cycle saw the remote store refuse a probe or a write.
RemoteAnswers == last.probe # "fail" /\ last.remote # "fail"

\* C13: if from some point on the remote store answers every probe and
\* accepts every write, every point placed in the queue is eventually in
\* the remote store and the queue is empty again and again.
C13_EventualDelivery ==
    (<>[]RemoteAnswers) =>
        /\ \A p \in AllPoints :
              (p \in Range(pendingSync)) ~> (p \in cloudStore)
        /\ []<>(pendingSync = <<>>)


\* The order none < low < medium < high < critical.
Severity(c) ==
    CASE c = "none" -> 0 [] c = "low" -> 1 [] c = "medium" -> 2
      [] c = "high" -> 3 [] c = "critical" -> 4

\* C16: classifyIrrigationNeed is monotonic: a larger deficit with the same
\* stress, or a larger stress with the same deficit, never gives a lower
\* severity class.
C16_ClassifyMonotonic ==
    call.fn = "classifyIrrigationNeed" =>
        /\ \A d2 \in call.arg[1]..MaxDeficit :
              Severity(classifyIrrigationNeed(d2, call.arg[2], 1))
                  >= Severity(call.res)
        /\ \A s2 \in call.arg[2]..MaxStress :
              Severity(classifyIrrigationNeed(call.arg[1], s2, 1))
                  >= Severity(call.res)

C16_Witness ==
    /\ call.fn = "classifyIrrigationNeed"
    /\ call.res = "low"
    /\ call.arg[1] < MaxDeficit
    /\ classifyIrrigationNeed(call.arg[1] + 1, call.arg[2], 1) = "medium"

\* C17: classifyIrrigationNeed returns the first match of: none if
\* deficit < 10 and stress < 0.2; low if deficit < 30 and stress < 0.4;
\* medium if deficit < 60 and stress < 0.6; high if deficit < 100 and
\* stress < 0.8; otherwise critical. (stress is call.arg[2] / 120.)
C17_ClassifyFirstMatch ==
    call.fn = "classifyIrrigationNeed" =>
        LET d == call.arg[1]
            s10 == 10 * call.arg[2]
        IN  call.res =
              IF d < 10 /\ s10 < 2 * 120 THEN "none"
              ELSE IF d < 30 /\ s10 < 4 * 120 THEN "low"
              ELSE IF d < 60 /\ s10 < 6 * 120 THEN "medium"
              ELSE IF d < 100 /\ s10 < 8 * 120 THEN "high"
              ELSE "critical"

C17_Witness ==
    /\ call.fn = "classifyIrrigationNeed"
    /\ call.arg = <<180, 65>>
    /\ call.res = "critical"

\* C18: calculateWaterDeficit is never negative, is 0 when the average of
\* the two moistures is >= 0.35, and is (0.35 - average) * 600 otherwise.
\* (average = (arg[1] + arg[2]) / 200.)
C18_WaterDeficit ==
    call.fn = "calculateWaterDeficit" =>
        LET sum == call.arg[1] + call.arg[2]
        IN  /\ call.res >= 0
            /\ (sum * 100 >= 35 * 200) => call.res = 0
            /\ (sum * 100 < 35 * 200) =>
                   call.res * 200 = (35 * 2 - sum) * 600

C18_Witness ==
    /\ call.fn = "calculateWaterDeficit"
    /\ call.arg = <<5, 5>>
    /\ call.res = 180

\* C19: calculateStressIndex is in [0,1] and equals
\* min(1, (max(0, (0.20 - moisture) / 0.20) + max(0, (temperature - 30) / 15)) / 2),
\* also for a moisture below 0 and a temperature above 45.
\* (moisture = arg[1] / 100; the result is res / 120.)
C19_StressIndex ==
    call.fn = "calculateStressIndex" =>
        LET m == call.arg[1]
            t == call.arg[2]
            ms20 == Max(0, 20 - m)
            ts15 == Max(0, t - 30)
        IN  /\ call.res >= 0 /\ call.res <= 120
            /\ call.res = Min(120, (60 * ms20) \div 20 + (60 * ts15) \div 15)

C19_Witness ==
    /\ call.fn = "calculateStressIndex"
    /\ call.arg[1] < 0 /\ call.arg[2] > 45
    /\ call.res = 120


\* The readings of a call that are within the search radius.
InRadius(sensors) ==
    {i \in 1..Len(sensors) : sensors[i].dist <= SearchRadius}

\* The readings of a call that are coincident with the point.
Coincident(sensors) == {i \in 1..Len(sensors) : sensors[i].dist < 1}

\* C14: interpolatePoint returns nil whenever the readings within the
\* search radius, none of them coincident with the point, are fewer than
\* min_sensors.
C14_AbsentBelowMinSensors ==
    call.fn = "interpolatePoint" =>
        ((Coincident(call.arg) = {}
             /\ Cardinality(InRadius(call.arg)) < MinSensors)
          => call.res.isNil)

C14_Witness ==
    /\ call.fn = "interpolatePoint"
    /\ Len(call.arg) = 3
    /\ Coincident(call.arg) = {}
    /\ Cardinality(InRadius(call.arg)) = 2
    /\ call.res.isNil

\* C15: when a reading lies at distance < 1 of the point, interpolatePoint
\* returns a point that copies the values of such a reading exactly, with
\* confidence 1.0 and that reading as its only source, whatever other
\* readings are in range.
C15_CoincidentCopiesReading ==
    call.fn = "interpolatePoint" =>
        (Coincident(call.arg) # {} =>
            /\ ~call.res.isNil
            /\ \E i \in Coincident(call.arg) :
                  /\ call.res.MoistureSurface = call.arg[i].MoistureSurface
                  /\ call.res.MoistureRoot = call.arg[i].MoistureRoot
                  /\ call.res.Temperature = call.arg[i].TempSurface
                  /\ call.res.den = 1
                  /\ call.res.SourceSensors = <<call.arg[i].SensorID>>
                  /\ call.res.Confidence.base[1] = call.res.Confidence.base[2]
                  /\ call.res.Confidence.factor[1]
                         = call.res.Confidence.factor[2])

C15_Witness ==
    /\ call.fn = "interpolatePoint"
    /\ Len(call.arg) = 3
    /\ Cardinality(InRadius(call.arg)) = 3
    /\ Coincident(call.arg) = {3}
    /\ ~call.res.isNil
    /\ call.res.SourceSensors = <<3>>


\* C20: the generated coordinates are spaced at the configured resolution
\* (GridResolution metres, 10 m being 0.0001 degree in the generator's
\* approximation), lie inside the extent, and reach the minimum and the
\* maximum bound on each axis.
C20_GridCoversExtentAtResolution ==
    call.fn = "generateGridPoints" =>
        LET pts == call.res
            gridResolution == call.arg[1]
        IN  /\ \A k \in 1..(Len(pts) - 1) :
                  \/ (pts[k + 1].lat = pts[k].lat
                        /\ (pts[k + 1].lon - pts[k].lon) * 10 = gridResolution)
                  \/ (pts[k + 1].lon = minLon
                        /\ (pts[k + 1].lat - pts[k].lat) * 10 = gridResolution)
            /\ \A k \in 1..Len(pts) :
                  /\ minLat <= pts[k].lat /\ pts[k].lat <= maxLat
                  /\ minLon <= pts[k].lon /\ pts[k].lon <= maxLon
            /\ \E k \in 1..Len(pts) : pts[k].lat = minLat
            /\ \E k \in 1..Len(pts) : pts[k].lat = maxLat
            /\ \E k \in 1..Len(pts) : pts[k].lon = minLon
            /\ \E k \in 1..Len(pts) : pts[k].lon = maxLon


\* A sync tick whose reachability probe succeeded.
ProbeSucceeded == SyncCycle /\ last'.probe = "ok"

\* A store operation whose remote write failed.
StoreWriteFailed == ComputeCycle /\ last'.stored /\ last'.remote = "fail"

\* C21: the online flag changes value only in two kinds of step: it can go
\* from offline to online only in a sync tick whose reachability probe
\* succeeded, and from online to offline only in a store operation whose
\* remote write failed. Every other step leaves it as it was.
C21_OnlineFlagTransitions ==
    [][/\ (~ProbeSucceeded /\ ~StoreWriteFailed) => isOnline' = isOnline
       /\ (~isOnline /\ isOnline') => ProbeSucceeded
       /\ (isOnline /\ ~isOnline') => StoreWriteFailed]_vars

C21_Witness ==
    /\ last.op = "sync" /\ last.probe = "none" /\ last.remote = "ok"
    /\ last.queued # <<>>
    /\ isOnline = last.online
    /\ now > 0


\* The irrigation-need classes.
IrrigationClasses == {"none", "low", "medium", "high", "critical"}

\* C22: every point interpolatePoint returns (each of them is stored by the
\* compute cycle), weighted or coincident, carries the edge computation
\* mode, an irrigation-need class, and the water deficit and the stress
\* index of its own moisture and temperature values.
C22_StoredPointsCarryDerivedFields ==
    (call.fn = "interpolatePoint" /\ ~call.res.isNil) =>
        LET p == call.res
        IN  /\ p.ComputationMode = "edge_20m"
            /\ p.IrrigationNeed \in IrrigationClasses
            /\ p.WaterDeficit =
                   calculateWaterDeficit(p.MoistureSurface, p.MoistureRoot, p.den)
            /\ p.StressIndex =
                   calculateStressIndex(p.MoistureSurface, p.Temperature, p.den)


\* C23: in every compute cycle the readings are queried from the remote
\* store exactly when the device is marked online at that moment, and from
\* the local cache exactly when it is marked offline.
C23_SourceFollowsConnectivity ==
    last.op = "compute" =>
        /\ (last.source = "cloudDB") <=> last.online
        /\ (last.source = "localDB") <=> ~last.online

C23_Witness ==
    /\ last.op = "compute" /\ last.fetch = "ok"
    /\ ~last.online
    /\ last.source = "localDB"


\* C24: a compute cycle whose query of the readings fails, or that gets
\* fewer than min_sensors readings for the field, returns without calling
\* store: the local store, the remote store, the queue and the online flag
\* are as they were.
C24_EarlyReturnStoresNothing ==
    [][\A fetch \in {"err", "few"}, produced \in SUBSET Grid,
          cloudOk \in BOOLEAN :
          computeVirtualGrid(fetch, produced, cloudOk)
              => /\ ~last'.stored
                 /\ UNCHANGED <<localStore, cloudStore, pendingSync,
                                isOnline>>]_vars

C24_Witness ==
    /\ last.op = "compute" /\ last.fetch = "few"
    /\ ~last.stored
    /\ pendingSync # <<>>
    /\ pendingSync = last.queued
    /\ localStore # {}


\* C25 as stated: in a compute cycle (which has at least min_sensors
\* readings for the field) no point is produced for a coordinate with
\* fewer than min_sensors readings within the search radius.
C25_NoPointBelowMinSensors ==
    (call.fn = "interpolatePoint" /\ Len(call.arg) >= MinSensors) =>
        (Cardinality(InRadius(call.arg)) < MinSensors => call.res.isNil)

\* C25, amended: for a coordinate with fewer than min_sensors readings
\* within the search radius a point is produced only when one of those
\* readings is coincident with the coordinate (distance < 1), and the point
\* is then the copy of a coincident reading, with that reading as its only
\* source; otherwise the coordinate is skipped.
C25_BelowMinSensorsOnlyCoincident ==
    (call.fn = "interpolatePoint"
        /\ Cardinality(InRadius(call.arg)) < MinSensors
        /\ ~call.res.isNil) =>
        \E i \in Coincident(call.arg) :
            /\ call.res.SourceSensors = <<call.arg[i].SensorID>>
            /\ call.res.MoistureSurface = call.arg[i].MoistureSurface
            /\ call.res.den = 1

C25_Witness ==
    /\ call.fn = "interpolatePoint"
    /\ Len(call.arg) = MinSensors
    /\ InRadius(call.arg) = {2}
    /\ Coincident(call.arg) = {2}
    /\ ~call.res.isNil
    /\ call.res.SourceSensors = <<2>>


\* C26: when the local cache cannot be opened at startup the process stops
\* before the scheduler loop starts, and from then on nothing runs: no
\* tick, no compute cycle, no sync cycle. When only the remote store cannot
\* be opened the loop starts, with the device offline and the queue empty.
C26_StartupFailures ==
    [][/\ \A cloudErr \in BOOLEAN :
              main(cloudErr, TRUE) => (loop' = "exited" /\ active' = {})
       /\ loop = "exited" => UNCHANGED vars
       /\ main(TRUE, FALSE)
              => /\ loop' = "select"
                 /\ ~isOnline'
                 /\ pendingSync' = <<>>]_vars

C26_Witness ==
    /\ loop = "exited"
    /\ active = {}
    /\ last = NoOp
    /\ localStore = {} /\ cloudStore = {}


\* The process is running and no cycle is in the middle of its work (a
\* cycle is one step of the model, so this is every state but the crashed
\* one).
BetweenCycles == loop \in {"select", "busy"}

\* C27: between cycles every point written to the local store is in the
\* remote store or in the queue.
C27_NoLoss ==
    BetweenCycles => (localStore \subseteq (cloudStore \cup Range(pendingSync)))

C27_Witness ==
    /\ loop = "select"
    /\ last.op = "sync" /\ last.remote = "fail"
    /\ cloudStore # {}
    /\ pendingSync # <<>>
    /\ Range(pendingSync) \cap cloudStore = {}
    /\ localStore = cloudStore \cup Range(pendingSync)


\* The points the cycle recorded in l handed to storeCloud: the cycle's own
\* points in a store operation, the queue it found in a sync tick.
Written(l) == IF l.op = "compute" THEN Range(l.pts) ELSE Range(l.queued)

\* C28: a remote write is all or nothing; then no point is written to the
\* remote store twice (a successful remote write never carries a point
\* that is already remote, and the queue holds no point twice), and between
\* cycles no point is both in the remote store and in the queue.
C28_NoDuplicateDelivery ==
    [][/\ ((ComputeCycle \/ SyncCycle) /\ last'.remote = "ok")
             => Written(last') \cap cloudStore = {}
       /\ BetweenCycles' =>
             /\ Range(pendingSync') \cap cloudStore' = {}
             /\ Cardinality(Range(pendingSync')) = Len(pendingSync')]_vars

C28_Witness ==
    /\ last.op = "sync" /\ last.remote = "ok"
    /\ last.queued # <<>>
    /\ pendingSync = <<>>
    /\ Range(last.queued) \subseteq cloudStore
    /\ cloudStore # Range(last.queued)


\* C29: a store operation that queues its k points (its remote write
\* failed or was not attempted) keeps every queued point in place and in
\* order and adds exactly its k points at the tail, in the order they were
\* generated; a queued point with the grid id of a new point stays, so the
\* queue grows by k whatever it holds.
C29_QueueAppendExact ==
    [][\A produced \in SUBSET Grid, cloudOk \in BOOLEAN :
          (computeVirtualGrid("ok", produced, cloudOk) /\ last'.remote # "ok")
              => LET k == Cardinality(produced)
                     n == Len(pendingSync)
                 IN  /\ Len(pendingSync') = n + k
                     /\ \A i \in 1..n : pendingSync'[i] = pendingSync[i]
                     /\ \A i \in 1..k :
                           /\ pendingSync'[n + i] = last'.pts[i]
                           /\ pendingSync'[n + i].gridId \in produced
                     /\ \A i, j \in 1..k :
                           i < j => pendingSync'[n + i].gridId
                                        < pendingSync'[n + j].gridId]_vars

C29_Witness ==
    /\ last.op = "compute" /\ last.remote # "ok"
    /\ Len(last.queued) = NumGrid
    /\ Len(pendingSync) = 2 * NumGrid
    /\ \A i \in 1..NumGrid :
          /\ pendingSync[i].gridId = pendingSync[NumGrid + i].gridId
          /\ pendingSync[i].ts # pendingSync[NumGrid + i].ts

\* C30: a sync tick leaves the local store as it is and adds nothing to the
\* queue; a compute cycle removes no point from the queue, from the local
\* store or from the remote store.
C30_CycleFrames ==
    [][/\ SyncCycle
             => /\ localStore' = localStore
                /\ Len(pendingSync') <= Len(pendingSync)
                /\ Range(pendingSync') \subseteq Range(pendingSync)
       /\ ComputeCycle
             => /\ IsPrefix(pendingSync, pendingSync')
                /\ localStore \subseteq localStore'
                /\ cloudStore \subseteq cloudStore']_vars

C30_Witness ==
    /\ last.op = "compute" /\ last.stored
    /\ last.queued # <<>>
    /\ IsPrefix(last.queued, pendingSync)
    /\ Len(pendingSync) > Len(last.queued)
    /\ Range(last.queued) \subseteq localStore
    /\ Range(last.pts) \subseteq localStore

====
